---- MODULE Spec2Model ----
(***************************************************************************)
(* A model of EDDEP (systems.py): snapshot retention (Systems.clean),      *)
(* location resolution (Utils.location_matcher), snapshot lookup           *)
(* (Utils.read_csv), the trade matcher (Systems.trade2,                    *)
(* Systems.profits_for_station_pair) and the sweep (Systems.high_trades).  *)
(*                                                                         *)
(* Text is modelled as Python models it: a str is a sequence of character  *)
(* codes (ASCII), and split, replace, int(), `in` and the list sort are    *)
(* computed on those sequences.                                            *)
(***************************************************************************)
EXTENDS Integers, Sequences, FiniteSets, TLC

VARIABLES
    csv_files,              \* Systems.csv_files: the glob's result, in the order glob returned it
    prices_files,           \* Systems.prices_files
    locations,              \* Systems.locations: sorted list of known locations
    files,                  \* clean's local dict: location -> date
    most_recent_locations,  \* Systems.most_recent_locations
    disk,                   \* the data directory: names of the files that exist
    remove_failed,          \* the files whose os.remove raised
    pc,                     \* position of the running command
    idx,                    \* position of clean's removal loops in their list
    content,                \* the lines of each file of the data directory
    call,                   \* the operation the command ran, with its arguments
    result                  \* what the operation returned or raised, and what it printed

vars == <<csv_files, prices_files, locations, files, most_recent_locations,
          disk, remove_failed, pc, idx, content, call, result>>

cleanVars == <<csv_files, prices_files, locations, files, most_recent_locations,
               disk, remove_failed, idx>>

callVars == <<content, call, result>>

(***************************************************************************)
(* Characters.                                                             *)
(***************************************************************************)
Dot == 46
Dash == 45
CharT == 84
Semicolon == 59
Zero == 48

DotCsv == <<46, 99, 115, 118>>
DotPrices == <<46, 112, 114, 105, 99, 101, 115>>

(***************************************************************************)
(* Python's str and list operations.                                       *)
(***************************************************************************)
Min(a, b) == IF a < b THEN a ELSE b

Range(s) == {s[k] : k \in 1..Len(s)}

\* s.find(c, k) for a one-character c, 1-based; 0 when c does not occur from k on.
RECURSIVE FindFrom(_, _, _)
FindFrom(s, c, k) ==
    IF k > Len(s) THEN 0
    ELSE IF s[k] = c THEN k
    ELSE FindFrom(s, c, k + 1)

Find(s, c) == FindFrom(s, c, 1)

\* s.find(sub), 1-based; 0 when sub does not occur.
FindStr(s, sub) ==
    LET hits == {k \in 1..(Len(s) - Len(sub) + 1) : SubSeq(s, k, k + Len(sub) - 1) = sub}
    IN  IF hits = {} THEN 0 ELSE CHOOSE k \in hits : \A j \in hits : k <= j

\* sub in s
Contains(s, sub) == Len(sub) = 0 \/ FindStr(s, sub) # 0

\* s.split(c, maxsplit); maxsplit = -1 splits at every c.
RECURSIVE SplitN(_, _, _)
SplitN(s, c, maxsplit) ==
    LET k == Find(s, c)
    IN  IF maxsplit = 0 \/ k = 0
        THEN <<s>>
        ELSE <<SubSeq(s, 1, k - 1)>> \o SplitN(SubSeq(s, k + 1, Len(s)), c, maxsplit - 1)

Split(s, c) == SplitN(s, c, -1)

\* s.split(sub)[0]: what precedes the first occurrence of sub.
SplitStrHead(s, sub) ==
    LET k == FindStr(s, sub)
    IN  IF k = 0 THEN s ELSE SubSeq(s, 1, k - 1)

\* s.replace(old, new, count) for one-character old and new; count = -1 replaces all.
RECURSIVE ReplaceN(_, _, _, _)
ReplaceN(s, old, new, count) ==
    LET k == Find(s, old)
    IN  IF count = 0 \/ k = 0
        THEN s
        ELSE SubSeq(s, 1, k - 1) \o <<new>>
             \o ReplaceN(SubSeq(s, k + 1, Len(s)), old, new, count - 1)

IsDigit(c) == c \in Zero..(Zero + 9)

\* int(s) succeeds (decimal digits only; sign and blanks do not occur in the data).
IsInt(s) == Len(s) > 0 /\ \A k \in 1..Len(s) : IsDigit(s[k])

RECURSIVE ToInt(_)
ToInt(s) ==
    IF Len(s) = 0 THEN 0
    ELSE 10 * ToInt(SubSeq(s, 1, Len(s) - 1)) + (s[Len(s)] - Zero)

\* a < b for str: by code point, a proper prefix first.
StrLess(a, b) ==
    \E k \in 1..(Min(Len(a), Len(b)) + 1) :
        /\ \A j \in 1..(k - 1) : a[j] = b[j]
        /\ \/ k > Len(a) /\ k <= Len(b)
           \/ k <= Len(a) /\ k <= Len(b) /\ a[k] < b[k]

\* One insertion into a sorted list.
RECURSIVE InsertSorted(_, _)
InsertSorted(s, x) ==
    IF Len(s) = 0 THEN <<x>>
    ELSE IF StrLess(x, s[1]) THEN <<x>> \o s
    ELSE <<s[1]>> \o InsertSorted(Tail(s), x)

\* sorted(list) / list.sort()
RECURSIVE Sorted(_)
Sorted(s) == IF Len(s) = 0 THEN <<>> ELSE InsertSorted(Sorted(Tail(s)), s[1])

\* Some enumeration of a set as a list (dict.keys()).
RECURSIVE SetToSeq(_)
SetToSeq(S) ==
    IF S = {} THEN <<>>
    ELSE LET x == CHOOSE y \in S : TRUE IN <<x>> \o SetToSeq(S \ {x})

(***************************************************************************)
(* Snapshot file names, as the glob of Systems.__init__ admits them:       *)
(*   <system>.<station>.<YYYY>-<MM>-<DD>T<HH>.<MM>.<SS><anything>.csv      *)
(***************************************************************************)
Pad2(n) == <<Zero + (n \div 10), Zero + (n % 10)>>

Pad4(n) == Pad2(n \div 100) \o Pad2(n % 100)

Stamp(ts) ==
    Pad4(ts[1]) \o <<Dash>> \o Pad2(ts[2]) \o <<Dash>> \o Pad2(ts[3]) \o <<CharT>>
    \o Pad2(ts[4]) \o <<Dot>> \o Pad2(ts[5]) \o <<Dot>> \o Pad2(ts[6])

FileName(location, ts, suffix, ext) ==
    location \o <<Dot>> \o Stamp(ts) \o suffix \o ext

(***************************************************************************)
(* Systems._find_locations                                                 *)
(***************************************************************************)
FileLocation(filename) ==
    LET file_fields == Split(filename, Dot)
    IN  file_fields[1] \o <<Dot>> \o file_fields[2]

FindLocations(fs) == Sorted(SetToSeq({FileLocation(fs[k]) : k \in 1..Len(fs)}))

(***************************************************************************)
(* Systems.clean                                                           *)
(***************************************************************************)
\* file.split('.', 2) and the rebuilt location, lines 186-187
CleanLocation(file) ==
    LET parts == SplitN(file, Dot, 2)
    IN  parts[1] \o <<Dot>> \o parts[2]

\* lines 186-190: the date of a file name, its separators turned into dashes
CleanDate(file) ==
    LET parts == SplitN(file, Dot, 2)
        d1 == ReplaceN(parts[3], Dot, Dash, 2)
        d2 == ReplaceN(d1, CharT, Dash, -1)
    IN  Split(d2, Dot)[1]

\* lines 193-200: whether the new date takes the place of the recorded one.
\* The loop runs over the zipped components and stops at the first one where
\* the new date is greater; a component where the new date is smaller does
\* not end it.
DateReplaces(prev_date, date) ==
    LET prev_tokens == Split(prev_date, Dash)
        new_tokens == Split(date, Dash)
    IN  \E k \in 1..Min(Len(prev_tokens), Len(new_tokens)) :
            ToInt(new_tokens[k]) > ToInt(prev_tokens[k])

\* lines 184-203: the dict after the files fs[k..] were seen
RECURSIVE ScanDates(_, _, _)
ScanDates(fs, k, acc) ==
    IF k > Len(fs) THEN acc
    ELSE LET location == CleanLocation(fs[k])
             date == CleanDate(fs[k])
         IN  ScanDates(fs, k + 1,
                 IF location \in DOMAIN acc
                 THEN IF DateReplaces(acc[location], date)
                      THEN [acc EXCEPT ![location] = date]
                      ELSE acc
                 ELSE acc @@ (location :> date))

\* lines 206-210: date[10] = 'T', date[13] = '.', date[16] = '.'
FixDate(date) == [date EXCEPT ![11] = CharT, ![14] = Dot, ![17] = Dot]

\* lines 205-211: the dict with its dates back in file name form
FixedDates(acc) == [location \in DOMAIN acc |-> FixDate(acc[location])]

\* lines 212-213: most_recent_locations, appended to and sorted
MostRecentLocations(old, fixed) ==
    Sorted(old \o SetToSeq({location \o <<Dot>> \o fixed[location] :
                              location \in DOMAIN fixed}))

\* lines 217 and 224: the file is not the most recent of its location
Obsolete(file, ext, recent) == SplitStrHead(file, ext) \notin Range(recent)

\* Where clean stands once the csv loop is at position i / the prices loop at j.
AfterCsv(i) ==
    IF i <= Len(csv_files) THEN <<"csv", i>>
    ELSE IF Len(prices_files) >= 1 THEN <<"prices", 1>>
    ELSE <<"done", 0>>

AfterPrices(j) == IF j <= Len(prices_files) THEN <<"prices", j>> ELSE <<"done", 0>>

\* lines 184-214
CleanSelect ==
    /\ pc = "clean"
    /\ LET fixed == FixedDates(ScanDates(csv_files, 1, <<>>))
       IN  /\ files' = fixed
           /\ most_recent_locations' = MostRecentLocations(most_recent_locations, fixed)
    /\ pc' = AfterCsv(1)[1]
    /\ idx' = AfterCsv(1)[2]
    /\ UNCHANGED <<csv_files, prices_files, locations, disk, remove_failed,
                   content, call, result>>

\* lines 216-219, os.remove succeeds
CleanCsvRemove ==
    /\ pc = "csv"
    /\ Obsolete(csv_files[idx], DotCsv, most_recent_locations)
    /\ disk' = disk \ {csv_files[idx]}
    /\ pc' = AfterCsv(idx + 1)[1]
    /\ idx' = AfterCsv(idx + 1)[2]
    /\ UNCHANGED <<csv_files, prices_files, locations, files, most_recent_locations,
                   remove_failed,
                   content, call, result>>

\* lines 216-219, os.remove raises OSError: nothing catches it, clean ends
CleanCsvRemoveFails ==
    /\ pc = "csv"
    /\ Obsolete(csv_files[idx], DotCsv, most_recent_locations)
    /\ remove_failed' = remove_failed \cup {csv_files[idx]}
    /\ pc' = "failed"
    /\ UNCHANGED <<csv_files, prices_files, locations, files, most_recent_locations,
                   disk, idx,
                   content, call, result>>

\* lines 220-221
CleanCsvKeep ==
    /\ pc = "csv"
    /\ ~Obsolete(csv_files[idx], DotCsv, most_recent_locations)
    /\ pc' = AfterCsv(idx + 1)[1]
    /\ idx' = AfterCsv(idx + 1)[2]
    /\ UNCHANGED <<csv_files, prices_files, locations, files, most_recent_locations,
                   disk, remove_failed,
                   content, call, result>>

\* lines 223-226, os.remove succeeds
CleanPricesRemove ==
    /\ pc = "prices"
    /\ Obsolete(prices_files[idx], DotPrices, most_recent_locations)
    /\ disk' = disk \ {prices_files[idx]}
    /\ pc' = AfterPrices(idx + 1)[1]
    /\ idx' = AfterPrices(idx + 1)[2]
    /\ UNCHANGED <<csv_files, prices_files, locations, files, most_recent_locations,
                   remove_failed,
                   content, call, result>>

\* lines 223-226, os.remove raises OSError
CleanPricesRemoveFails ==
    /\ pc = "prices"
    /\ Obsolete(prices_files[idx], DotPrices, most_recent_locations)
    /\ remove_failed' = remove_failed \cup {prices_files[idx]}
    /\ pc' = "failed"
    /\ UNCHANGED <<csv_files, prices_files, locations, files, most_recent_locations,
                   disk, idx,
                   content, call, result>>

\* lines 227-228
CleanPricesKeep ==
    /\ pc = "prices"
    /\ ~Obsolete(prices_files[idx], DotPrices, most_recent_locations)
    /\ pc' = AfterPrices(idx + 1)[1]
    /\ idx' = AfterPrices(idx + 1)[2]
    /\ UNCHANGED <<csv_files, prices_files, locations, files, most_recent_locations,
                   disk, remove_failed,
                   content, call, result>>

(***************************************************************************)
(* The data directories the retention pass is run on.                      *)
(***************************************************************************)
MaxCsv == 3
MaxPrices == 1

\* "A.B", "C.D"
CleanLocations == {<<65, 46, 66>>, <<67, 46, 68>>}

Stamps == {<<2023, 12, 31, 0, 0, 0>>, <<2024, 1, 1, 0, 0, 0>>, <<2024, 1, 2, 0, 0, 0>>}

\* The names EDMC writes: nothing between the seconds and the extension.
PlainCsvPool == {FileName(l, t, <<>>, DotCsv) : l \in CleanLocations, t \in Stamps}

\* The glob also admits text there: nothing, or ".1".
Suffixes == {<<>>, <<46, 49>>}

CsvPool == {FileName(l, t, s, DotCsv) : l \in CleanLocations, t \in Stamps, s \in Suffixes}

PricesPool == {FileName(l, t, <<>>, DotPrices) : l \in CleanLocations, t \in Stamps}

\* The lists of at most n distinct members of S, in every order.
Lists(S, n) ==
    UNION {{s \in [1..k -> S] : \A i, j \in 1..k : i # j => s[i] # s[j]} : k \in 0..n}

\* Systems.__init__, lines 159-167, over a directory holding the files csv and prices
Construct(csv, prices) ==
    /\ csv_files = csv
    /\ prices_files = prices
    /\ locations = FindLocations(csv)
    /\ files = <<>>
    /\ most_recent_locations = <<>>
    /\ disk = Range(csv) \cup Range(prices)
    /\ remove_failed = {}
    /\ idx = 0

\* clean reads no file and calls none of the lookups
NoCall ==
    /\ content = <<>>
    /\ call = <<>>
    /\ result = <<>>

\* `systems.py clean` in a directory of files named as EDMC names them
InitClean ==
    /\ \E csv \in Lists(PlainCsvPool, MaxCsv), prices \in Lists(PricesPool, MaxPrices) :
           Construct(csv, prices)
    /\ NoCall
    /\ pc = "clean"

\* `systems.py clean` in a directory of files the glob matches
InitCleanAny ==
    /\ \E csv \in Lists(CsvPool, MaxCsv), prices \in Lists(PricesPool, MaxPrices) :
           Construct(csv, prices)
    /\ NoCall
    /\ pc = "clean"

NextClean ==
    \/ CleanSelect
    \/ CleanCsvRemove
    \/ CleanCsvRemoveFails
    \/ CleanCsvKeep
    \/ CleanPricesRemove
    \/ CleanPricesRemoveFails
    \/ CleanPricesKeep

SpecClean == InitClean /\ [][NextClean]_vars

SpecCleanAny == InitCleanAny /\ [][NextClean]_vars

(***************************************************************************)
(* Retention: what the pass is expected to leave behind.                   *)
(***************************************************************************)
\* The six numeric components of a snapshot's timestamp, read off its name.
StampOf(file) ==
    LET at == Len(CleanLocation(file)) + 1
        num(a, b) == ToInt(SubSeq(file, at + a, at + b))
    IN  <<num(1, 4), num(6, 7), num(9, 10), num(12, 13), num(15, 16), num(18, 19)>>

\* a is older than b: the components compared left to right.
StampLess(a, b) ==
    \E k \in 1..6 : a[k] < b[k] /\ \A j \in 1..(k - 1) : a[j] = b[j]

\* The snapshots of one kind that share file's location.
SameLocation(kind, file) ==
    {g \in Range(kind) : CleanLocation(g) = CleanLocation(file)}

\* Every order the glob may list the csv files in.
Orderings(fs) ==
    {[k \in 1..Len(fs) |-> fs[p[k]]] : p \in Permutations(1..Len(fs))}

\* The snapshots a pass over the csv files as listed in `order` retains.
RetainedUnder(order) ==
    LET recent == MostRecentLocations(<<>>, FixedDates(ScanDates(order, 1, <<>>)))
    IN  {f \in Range(csv_files) : ~Obsolete(f, DotCsv, recent)}
        \cup {f \in Range(prices_files) : ~Obsolete(f, DotPrices, recent)}

\* C1: after a completed retention pass, for every location and each kind
\* exactly one snapshot of that location and kind survives, and no snapshot
\* of that location and kind has a greater timestamp than the survivor.
C1_NewestSurvives ==
    pc = "done" =>
        \A kind \in {csv_files, prices_files} : \A f \in Range(kind) :
            /\ Cardinality(SameLocation(kind, f) \cap disk) = 1
            /\ \A g \in SameLocation(kind, f) \cap disk :
                   \A h \in SameLocation(kind, f) : ~StampLess(StampOf(g), StampOf(h))

\* C6: the retained and the obsolete snapshots the pass computed are those it
\* computes for every other order of the same csv files.
C6_OrderIndependent ==
    pc \in {"csv", "prices", "done", "failed"} =>
        \A order \in Orderings(csv_files) :
            RetainedUnder(order) = RetainedUnder(csv_files)

\* C8: once the pass is over, every obsolete snapshot whose own removal did
\* not fail has been removed, also when the removal of another one failed.
C8_BestEffortRemoval ==
    pc \in {"done", "failed"} =>
        \A f \in (Range(csv_files) \cup Range(prices_files)) \ RetainedUnder(csv_files) :
            f \notin remove_failed => f \notin disk

\* C10: in every state of a retention pass each location that had a csv
\* snapshot when the pass began still has one, so the known locations derived
\* from the directory are those derived before the pass.
C10_NoLocationLost ==
    /\ \A f \in Range(csv_files) : SameLocation(csv_files, f) \cap disk # {}
    /\ FindLocations(SetToSeq(Range(csv_files) \cap disk)) = locations

(***************************************************************************)
(* Utils.location_matcher and Utils.read_csv                               *)
(***************************************************************************)
Returned(value) == [raised |-> "none", value |-> value]

Raised(exception) == [raised |-> exception, value |-> <<>>]

\* lines 130-135, started at position k of the list: the first location that
\* holds the snippet, '' when none does
RECURSIVE FirstMatch(_, _, _)
FirstMatch(location_snippet, locs, k) ==
    IF k > Len(locs) THEN <<>>
    ELSE IF Contains(locs[k], location_snippet) THEN locs[k]
    ELSE FirstMatch(location_snippet, locs, k + 1)

\* no break at line 135: the last location that holds the snippet
location_matcher_last(location_snippet, locs) ==
    LET hits == {k \in 1..Len(locs) : Contains(locs[k], location_snippet)}
    IN  IF hits = {}
        THEN Raised("LocationException")
        ELSE Returned(locs[CHOOSE k \in hits : \A j \in hits : j <= k])

\* lines 128-140
location_matcher(location_snippet, locs) ==
    LET matched_location == FirstMatch(location_snippet, locs, 1)
    IN  IF matched_location = <<>>
        THEN Raised("LocationException")
        ELSE Returned(matched_location)

\* items[1:]
DropHeader(items) == IF Len(items) = 0 THEN <<>> ELSE Tail(items)

\* lines 143-153: every file whose name holds the location is read in turn and
\* `items` keeps the lines of the last one; with no such file `items` is unbound
read_csv(location, csv, lines) ==
    IF location = <<>> THEN Raised("LocationException")
    ELSE LET hits == {k \in 1..Len(csv) : Contains(csv[k], location)}
         IN  IF hits = {}
             THEN Raised("UnboundLocalError")
             ELSE LET last == CHOOSE k \in hits : \A j \in hits : j <= k
                  IN  Returned(DropHeader(lines[csv[last]]))

\* Utils.location_matcher on the known locations (as buy, sell and trade2 call it)
LocationMatcher(location_snippet) ==
    /\ pc = "ready"
    /\ call' = [op |-> "location_matcher", location_snippet |-> location_snippet]
    /\ result' = location_matcher(location_snippet, locations)
    /\ pc' = "returned"
    /\ UNCHANGED <<cleanVars, content>>

\* Utils.read_csv for a known location (as the matcher and the reports call it)
ReadCsv(location) ==
    /\ pc = "ready"
    /\ call' = [op |-> "read_csv", location |-> location]
    /\ result' = read_csv(location, csv_files, content)
    /\ pc' = "returned"
    /\ UNCHANGED <<cleanVars, content>>

(***************************************************************************)
(* The data directories the lookups are run on.                            *)
(***************************************************************************)
MaxNameLen == 2
MaxLookupFiles == 2

\* The words of 1..n letters
Words(letters, n) == UNION {[1..k -> letters] : k \in 1..n}

\* Systems named in "A" and "B", stations in "C": "B.C" lies within "AB.C",
\* "A.C" starts "A.CC".
LookupLocations ==
    {sys \o <<Dot>> \o sta : sys \in Words({65, 66}, MaxNameLen), sta \in Words({67}, MaxNameLen)}

\* "System;Station;Commodity;Sell;Buy;Demand;;Supply;;Date\n"
Header ==
    <<83, 121, 115, 116, 101, 109, 59, 83, 116, 97, 116, 105, 111, 110, 59,
      67, 111, 109, 109, 111, 100, 105, 116, 121, 59, 83, 101, 108, 108, 59,
      66, 117, 121, 59, 68, 101, 109, 97, 110, 100, 59, 59,
      83, 117, 112, 112, 108, 121, 59, 59, 68, 97, 116, 101, 10>>

\* ";Gold;150;100;;;50;;"
GoldColumns ==
    <<59, 71, 111, 108, 100, 59, 49, 53, 48, 59, 49, 48, 48, 59, 59, 59, 53, 48, 59, 59>>

\* The one record the snapshot named file carries: its own system, station
\* and date around a commodity.
SnapshotLine(file) ==
    LET location == FileLocation(file)
    IN  ReplaceN(location, Dot, Semicolon, 1) \o GoldColumns
        \o SubSeq(file, Len(location) + 2, Len(location) + 20) \o <<10>>

SnapshotLines(csv) == [f \in Range(csv) |-> <<Header, SnapshotLine(f)>>]

\* "A", "B": parts of names; "Z": part of none
PartialSnippets == {<<65>>, <<66>>, <<90>>}

\* One snapshot per location, as a retention pass leaves the directory;
\* location_matcher reads no file.
InitResolve ==
    /\ \E csv \in Lists({FileName(l, <<2024, 1, 1, 0, 0, 0>>, <<>>, DotCsv) :
                           l \in LookupLocations}, MaxLookupFiles) :
           Construct(csv, <<>>)
    /\ content = <<>>
    /\ call = <<>>
    /\ result = <<>>
    /\ pc = "ready"

NextResolve ==
    \E location_snippet \in Range(locations) \cup PartialSnippets :
        LocationMatcher(location_snippet)

SpecResolve == InitResolve /\ [][NextResolve]_vars

\* Any directory of snapshots, retained or not (buy, sell and ferengi run no
\* retention pass first).
InitRead ==
    /\ \E csv \in Lists({FileName(l, t, <<>>, DotCsv) :
                           l \in LookupLocations,
                           t \in {<<2024, 1, 1, 0, 0, 0>>, <<2024, 1, 2, 0, 0, 0>>}},
                        MaxLookupFiles) :
           /\ Construct(csv, <<>>)
           /\ content = SnapshotLines(csv)
    /\ call = <<>>
    /\ result = <<>>
    /\ pc = "ready"

NextRead == \E location \in Range(locations) : ReadCsv(location)

SpecRead == InitRead /\ [][NextRead]_vars

(***************************************************************************)
(* Lookups: what they are expected to return.                              *)
(***************************************************************************)
\* C4 as stated: resolving a known location gives that location.
C4_ResolveIdempotent ==
    (pc = "returned" /\ call.op = "location_matcher"
        /\ call.location_snippet \in Range(locations))
    => result = Returned(call.location_snippet)

\* The known locations that hold the snippet and sort before it.
EarlierHolders(location_snippet) ==
    {l \in Range(locations) : Contains(l, location_snippet) /\ StrLess(l, location_snippet)}

\* C4, amended: resolving a known location L gives the known location that
\* holds L and sorts first among those that do; that is L itself exactly when
\* no known location that sorts before L holds L (a location that only starts
\* with L sorts after it).
C4_ResolveFirstHolder ==
    (pc = "returned" /\ call.op = "location_matcher"
        /\ call.location_snippet \in Range(locations))
    => /\ result.raised = "none"
       /\ result.value \in Range(locations)
       /\ Contains(result.value, call.location_snippet)
       /\ \A l \in Range(locations) :
              Contains(l, call.location_snippet) => ~StrLess(l, result.value)
       /\ (result.value = call.location_snippet)
              <=> (EarlierHolders(call.location_snippet) = {})

\* A known location that another known location starts with was resolved to itself.
C4_Witness ==
    /\ pc = "returned" /\ call.op = "location_matcher"
    /\ call.location_snippet \in Range(locations)
    /\ \E l \in Range(locations) :
           l # call.location_snippet /\ Contains(l, call.location_snippet)
    /\ result = Returned(call.location_snippet)

\* The csv snapshots of exactly this location.
SnapshotsOf(location) == {f \in Range(csv_files) : FileLocation(f) = location}

\* C7: read_csv(L) returns the records of the csv snapshot whose location is
\* exactly L and whose timestamp is the greatest among L's csv snapshots.
C7_ReadsOwnLatest ==
    (pc = "returned" /\ call.op = "read_csv")
    => \E f \in SnapshotsOf(call.location) :
           /\ \A g \in SnapshotsOf(call.location) : ~StampLess(StampOf(f), StampOf(g))
           /\ result = Returned(DropHeader(content[f]))

(***************************************************************************)
(* Systems.trade2 and Systems.profits_for_station_pair                     *)
(***************************************************************************)
\* What a command printed so far, and the exception that ended it ("none":
\* it ran to its end).
Outcome(raised, printed) == [raised |-> raised, printed |-> printed]

\* line 281
HeaderLine(origin, target) == [kind |-> "header", origin |-> origin, target |-> target]

\* line 312
PairLine(origin, target) == [kind |-> "pair", origin |-> origin, target |-> target]

\* lines 293-295 and 313-316: name, int(o_columns[4]), int(o_columns[7]),
\* int(t_columns[3]), profit
TradeLine(o_columns, t_columns, profit) ==
    [kind |-> "trade",
     name |-> o_columns[3],
     origin_cost |-> ToInt(o_columns[5]),
     origin_supply |-> ToInt(o_columns[8]),
     target_revenue |-> ToInt(t_columns[4]),
     profit |-> profit]

\* item.split(';'): column n of the code is element n + 1 here
Columns(item) == Split(item, Semicolon)

\* profit >= lowest_profit: a threshold that lets the bound itself through
ProfitableOrEqual(profit, lowest_profit) == profit >= lowest_profit

\* lines 292 and 311
Profitable(profit, lowest_profit) == profit > lowest_profit

\* lines 288 and 307, left operand: the supply column is a non-empty str
Purchasable(o_columns) == o_columns[8] # <<>>

\* The body of the inner loop, lines 288-295 (trade2: pair = <<>>) and
\* 307-320 (profits_for_station_pair: pair = the line printed before a
\* trade), for one origin and one target record. Columns are read, and
\* numbers parsed, only where the statements reach them.
MatchPair(o_columns, t_columns, lowest_profit, pair) ==
    IF Len(o_columns) <= 7 THEN Outcome("IndexError", <<>>)
    ELSE IF ~Purchasable(o_columns) THEN Outcome("none", <<>>)
    ELSE IF Len(t_columns) <= 2 THEN Outcome("IndexError", <<>>)
    ELSE IF o_columns[3] # t_columns[3] THEN Outcome("none", <<>>)
    ELSE IF Len(t_columns) <= 3 THEN Outcome("IndexError", <<>>)
    ELSE IF ~IsInt(t_columns[4]) \/ ~IsInt(o_columns[5]) THEN Outcome("ValueError", <<>>)
    ELSE LET sell_price == ToInt(t_columns[4])
             buy_price == ToInt(o_columns[5])
             profit == sell_price - buy_price
         IN  IF ~Profitable(profit, lowest_profit) THEN Outcome("none", <<>>)
             ELSE IF ~IsInt(o_columns[8]) THEN Outcome("ValueError", pair)
             ELSE Outcome("none", pair \o <<TradeLine(o_columns, t_columns, profit)>>)

\* The inner loop, lines 284-295 and 303-320, from target record j on, for
\* the origin record split at line 283 / 302; an exception ends it.
RECURSIVE MatchTargets(_, _, _, _, _, _)
MatchTargets(o_columns, target_items, j, lowest_profit, pair, printed) ==
    IF j > Len(target_items) THEN Outcome("none", printed)
    ELSE LET step == MatchPair(o_columns, Columns(target_items[j]), lowest_profit, pair)
         IN  IF step.raised # "none"
             THEN Outcome(step.raised, printed \o step.printed)
             ELSE MatchTargets(o_columns, target_items, j + 1, lowest_profit, pair,
                               printed \o step.printed)

\* The outer loop, lines 282-295 and 301-320, from origin record i on.
RECURSIVE MatchFrom(_, _, _, _, _, _)
MatchFrom(origin_items, target_items, i, lowest_profit, pair, printed) ==
    IF i > Len(origin_items) THEN Outcome("none", printed)
    ELSE LET row == MatchTargets(Columns(origin_items[i]), target_items, 1,
                                 lowest_profit, pair, printed)
         IN  IF row.raised # "none" THEN row
             ELSE MatchFrom(origin_items, target_items, i + 1, lowest_profit, pair,
                            row.printed)

\* lines 270-295
trade2(origin_snippet, target_snippet) ==
    LET origin == location_matcher(origin_snippet, locations)
        target == location_matcher(target_snippet, locations)
    IN  IF origin.raised # "none" THEN Outcome(origin.raised, <<>>)
        ELSE IF target.raised # "none" THEN Outcome(target.raised, <<>>)
        ELSE LET origin_items == read_csv(origin.value, csv_files, content)
                 target_items == read_csv(target.value, csv_files, content)
             IN  IF origin_items.raised # "none" THEN Outcome(origin_items.raised, <<>>)
                 ELSE IF target_items.raised # "none" THEN Outcome(target_items.raised, <<>>)
                 ELSE MatchFrom(origin_items.value, target_items.value, 1, 0, <<>>,
                                <<HeaderLine(origin.value, target.value)>>)

\* lines 297-320, continuing what was printed so far
profits_for_station_pair(origin, target, lowest_profit, printed) ==
    LET origin_items == read_csv(origin, csv_files, content)
        target_items == read_csv(target, csv_files, content)
    IN  IF origin_items.raised # "none" THEN Outcome(origin_items.raised, printed)
        ELSE IF target_items.raised # "none" THEN Outcome(target_items.raised, printed)
        ELSE MatchFrom(origin_items.value, target_items.value, 1, lowest_profit,
                       <<PairLine(origin, target)>>, printed)

\* `systems.py -o origin -t target trade2`, once main's retention pass is over
Trade2(origin, target) ==
    /\ pc = "ready"
    /\ call' = [op |-> "trade2", origin |-> origin, target |-> target]
    /\ result' = trade2(origin, target)
    /\ pc' = "returned"
    /\ UNCHANGED <<cleanVars, content>>

\* Systems.profits_for_station_pair for one pair of known locations (as
\* high_trades calls it)
ProfitsForStationPair(origin, target, lowest_profit) ==
    /\ pc = "ready"
    /\ call' = [op |-> "profits_for_station_pair", origin |-> origin, target |-> target,
                lowest_profit |-> lowest_profit]
    /\ result' = profits_for_station_pair(origin, target, lowest_profit, <<>>)
    /\ pc' = "returned"
    /\ UNCHANGED <<cleanVars, content>>

(***************************************************************************)
(* The snapshots the matcher is run on.                                    *)
(***************************************************************************)
MaxRows == 2

\* "S;T;<name>;<sell>;<buy>;;;<supply>;;D\n"
Record(name, sell, buy, supply) ==
    <<83, 59, 84, 59>> \o name \o <<Semicolon>> \o sell \o <<Semicolon>> \o buy
    \o <<Semicolon, Semicolon, Semicolon>> \o supply \o <<Semicolon, Semicolon, 68, 10>>

Gold == <<71, 111, 108, 100>>
Tea == <<84, 101, 97>>

\* Gold 150/100 with a supply of 50 and with none; Tea 700/100 with a
\* supply of 0; a line cut short after its name ("S;T;Gold\n"); a price that
\* is no number.
RecordPool ==
    { Record(Gold, <<49, 53, 48>>, <<49, 48, 48>>, <<53, 48>>),
      Record(Gold, <<49, 53, 48>>, <<49, 48, 48>>, <<>>),
      Record(Tea, <<55, 48, 48>>, <<49, 48, 48>>, <<48>>),
      <<83, 59, 84, 59>> \o Gold \o <<10>>,
      Record(Gold, <<120>>, <<49, 48, 48>>, <<53, 48>>) }

\* The tables of at most n records
Tables(pool, n) == UNION {[1..k -> pool] : k \in 0..n}

\* "A.B", "C.D"
OriginLocation == <<65, 46, 66>>
TargetLocation == <<67, 46, 68>>

\* The default of --lowest_profit, and a lower one
DefaultLowestProfit == 500
LowestProfits == {DefaultLowestProfit, 50}

\* The two snapshots: A.B.2024-01-01T00.00.00.csv, C.D.2024-01-02T00.00.00.csv
OriginFile == FileName(OriginLocation, <<2024, 1, 1, 0, 0, 0>>, <<>>, DotCsv)
TargetFile == FileName(TargetLocation, <<2024, 1, 2, 0, 0, 0>>, <<>>, DotCsv)

\* One snapshot for each of two locations, as the retention pass leaves them.
InitTrade ==
    /\ Construct(<<OriginFile, TargetFile>>, <<>>)
    /\ \E origin_items \in Tables(RecordPool, MaxRows),
          target_items \in Tables(RecordPool, MaxRows) :
           content = (OriginFile :> (<<Header>> \o origin_items))
                     @@ (TargetFile :> (<<Header>> \o target_items))
    /\ call = <<>>
    /\ result = <<>>
    /\ pc = "ready"

NextTrade ==
    \/ Trade2(OriginLocation, TargetLocation)
    \/ \E lowest_profit \in LowestProfits :
           ProfitsForStationPair(OriginLocation, TargetLocation, lowest_profit)

SpecTrade == InitTrade /\ [][NextTrade]_vars

(***************************************************************************)
(* The matcher: what it is expected to print.                              *)
(***************************************************************************)
\* The commodity table of a known location: the records of its snapshot.
TableOf(location) == DropHeader(content[CHOOSE f \in SnapshotsOf(location) : TRUE])

\* A record with every required column, integer prices and an integer or
\* absent supply.
WellFormed(item) ==
    LET columns == Columns(item)
    IN  /\ Len(columns) >= 8
        /\ IsInt(columns[4])
        /\ IsInt(columns[5])
        /\ columns[8] = <<>> \/ IsInt(columns[8])

WellFormedTable(items) == \A k \in 1..Len(items) : WellFormed(items[k])

MatcherReturned ==
    pc = "returned" /\ call.op \in {"trade2", "profits_for_station_pair"}

\* The threshold of the variant that ran: 0 for trade2.
LowestOfCall == IF call.op = "trade2" THEN 0 ELSE call.lowest_profit

IsTrade(line) == line.kind = "trade"

\* The pairs <<i, j>> of an origin and a target record of the same name whose
\* origin supply is present and whose profit exceeds the threshold.
Opportunities(origin_items, target_items, lowest_profit) ==
    {m \in (1..Len(origin_items)) \X (1..Len(target_items)) :
        LET o == Columns(origin_items[m[1]])
            t == Columns(target_items[m[2]])
        IN  /\ o[3] = t[3]
            /\ o[8] # <<>>
            /\ ToInt(t[4]) - ToInt(o[5]) > lowest_profit}

\* Origin order first, target order second.
PairBefore(a, b) == a[1] < b[1] \/ (a[1] = b[1] /\ a[2] < b[2])

\* The record an opportunity is reported as.
Opportunity(o, t) ==
    [kind |-> "trade", name |-> o[3], origin_cost |-> ToInt(o[5]),
     origin_supply |-> ToInt(o[8]), target_revenue |-> ToInt(t[4]),
     profit |-> ToInt(t[4]) - ToInt(o[5])]

\* C2: no opportunity is printed for an origin record whose supply is zero
\* or absent: every printed opportunity reports a supply above zero.
C2_NoTradeWithoutSupply ==
    MatcherReturned =>
        \A k \in 1..Len(result.printed) :
            IsTrade(result.printed[k]) => result.printed[k].origin_supply > 0

C9_CorruptSurfaced ==
    (MatcherReturned
        /\ ~(WellFormedTable(TableOf(call.origin)) /\ WellFormedTable(TableOf(call.target))))
    => result.raised # "none"

(***************************************************************************)
(* Systems.high_trades                                                     *)
(***************************************************************************)
\* 'Shinrarta Dezhra.Jameson Memorial'
Hub ==
    <<83, 104, 105, 110, 114, 97, 114, 116, 97, 32, 68, 101, 122, 104, 114, 97, 46,
      74, 97, 109, 101, 115, 111, 110, 32, 77, 101, 109, 111, 114, 105, 97, 108>>

\* line 328: the one location that is never an origin
excluded_origins == {Hub}

\* origin == target or target == hub: the exclusion put on the wrong side
SkipPairTarget(origin, target) == origin = target \/ target \in excluded_origins

\* line 328
SkipPair(origin, target) == origin = target \/ origin \in excluded_origins

\* What the sweep printed, the exception that ended it, and the pairs it
\* handed to profits_for_station_pair.
SweepOutcome(raised, printed, calls) ==
    [raised |-> raised, printed |-> printed, calls |-> calls]

\* lines 326-331, from origin i and target j on
RECURSIVE SweepFrom(_, _, _, _, _)
SweepFrom(i, j, lowest_profit, printed, calls) ==
    IF i > Len(locations) THEN SweepOutcome("none", printed, calls)
    ELSE IF j > Len(locations) THEN SweepFrom(i + 1, 1, lowest_profit, printed, calls)
    ELSE IF SkipPair(locations[i], locations[j])
    THEN SweepFrom(i, j + 1, lowest_profit, printed, calls)
    ELSE LET pair == profits_for_station_pair(locations[i], locations[j],
                                              lowest_profit, printed)
             called == Append(calls, <<locations[i], locations[j]>>)
         IN  IF pair.raised # "none"
             THEN SweepOutcome(pair.raised, pair.printed, called)
             ELSE SweepFrom(i, j + 1, lowest_profit, pair.printed, called)

\* lines 322-331
high_trades(lowest_profit) ==
    SweepFrom(1, 1, lowest_profit, <<[kind |-> "locations", locations |-> locations]>>, <<>>)

\* `systems.py -l lowest_profit ferengi`
HighTrades(lowest_profit) ==
    /\ pc = "ready"
    /\ call' = [op |-> "high_trades", lowest_profit |-> lowest_profit]
    /\ result' = high_trades(lowest_profit)
    /\ pc' = "returned"
    /\ UNCHANGED <<cleanVars, content>>

(***************************************************************************)
(* The data directories the sweep is run on.                               *)
(***************************************************************************)
MaxSweepFiles == 3

\* The hub, "A.B", "C.D", "E.F"
SweepLocations == {Hub, <<65, 46, 66>>, <<67, 46, 68>>, <<69, 46, 70>>}

SweepPool == {FileName(l, <<2024, 1, 1, 0, 0, 0>>, <<>>, DotCsv) : l \in SweepLocations}

\* No record; Tea 700/100 with a supply of 5; Gold 150/100 with a supply of
\* 50; a line cut short after its name.
SweepTables ==
    { <<>>,
      <<Record(Tea, <<55, 48, 48>>, <<49, 48, 48>>, <<53>>)>>,
      <<Record(Gold, <<49, 53, 48>>, <<49, 48, 48>>, <<53, 48>>)>>,
      <<<<83, 59, 84, 59>> \o Gold \o <<10>>>> }

\* One snapshot per location, in the order the glob lists them.
InitSweep ==
    /\ \E csv \in Lists(SweepPool, MaxSweepFiles) :
           /\ Construct(csv, <<>>)
           /\ \E tables \in [Range(csv) -> SweepTables] :
                  content = [f \in Range(csv) |-> <<Header>> \o tables[f]]
    /\ call = <<>>
    /\ result = <<>>
    /\ pc = "ready"

NextSweep == \E lowest_profit \in LowestProfits : HighTrades(lowest_profit)

SpecSweep == InitSweep /\ [][NextSweep]_vars

(***************************************************************************)
(* The sweep: the pairs it is expected to match.                           *)
(***************************************************************************)
SweepReturned == pc = "returned" /\ call.op = "high_trades"

\* The positions <<i, j>> of the ordered pairs of distinct known locations
\* whose origin is not excluded.
SweepPairs ==
    {m \in (1..Len(locations)) \X (1..Len(locations)) :
        /\ locations[m[1]] # locations[m[2]]
        /\ locations[m[1]] \notin excluded_origins}

====
